---------------------------- MODULE Spec2Model ----------------------------
(***************************************************************************)
(* FluxRPC quickstart (src/src/index.ts).  The file holds two builds of    *)
(* the same program: build "B" (lines 1-194) whose third method is         *)
(* getTransaction, and build "C" (lines 196-373) whose third method is     *)
(* getSlot.  The model covers module evaluation (configuration, credential *)
(* check, connection), the exported query methods, the demo runner and the *)
(* RPC client, which is an external collaborator: every reply it can give  *)
(* is a nondeterministic choice.                                           *)
(*                                                                         *)
(* Numbers that JavaScript computes by floating-point division are kept as *)
(* exact values, an integer part plus a reduced proper fraction.           *)
(***************************************************************************)
EXTENDS Integers, Sequences, FiniteSets, TLC

VARIABLES
    variant,          \* which build runs: "B" or "C"
    env,              \* process.env, read once at start
    pc,               \* position of the module's top-level code
    FLUXRPC_API_KEY,  \* const, line 48 / 239
    FLUXRPC_REGION,   \* const, line 49 / 240
    RPC_URL,          \* const, line 61 / 252
    connection,       \* const, line 63 / 254
    demoPc,           \* position of demo()
    calls,            \* the invocations of the query methods
    net,              \* per invocation, the request the RPC client has in flight
    replies,          \* per invocation, the replies the RPC client gave it (history)
    stdout,           \* console.log lines (labels)
    stderr,           \* console.error lines
    exitCode          \* process exit status, NoExit while the process lives

vars == <<variant, env, pc, FLUXRPC_API_KEY, FLUXRPC_REGION, RPC_URL,
          connection, demoPc, calls, net, replies, stdout, stderr, exitCode>>

-----------------------------------------------------------------------------
(* Bounds *)

\* Invocations an importer of the module makes besides the demo's three.
MaxCalls == 1

-----------------------------------------------------------------------------
(* JavaScript values *)

JUndef == [t |-> "undefined"]
JNull == [t |-> "null"]
JStr(s) == [t |-> "string", v |-> s]
JNum(n) == [t |-> "number", v |-> n]

\* ToBoolean: undefined, null, "" and 0 are falsy.
Truthy(x) ==
    CASE x.t = "undefined" -> FALSE
      [] x.t = "null" -> FALSE
      [] x.t = "string" -> x.v /= ""
      [] x.t = "number" -> x.v /= 0
      [] OTHER -> TRUE

\* a || b
JOr(a, b) == IF Truthy(a) THEN a ELSE b

RECURSIVE GCD(_, _)
GCD(a, b) == IF b = 0 THEN a ELSE GCD(b, a % b)

\* n / d for n >= 0, d > 0: int + num/den with num/den reduced, 0 <= num < den.
Quot(n, d) ==
    [int |-> n \div d,
     num |-> (n % d) \div GCD(n % d, d),
     den |-> d \div GCD(n % d, d)]

-----------------------------------------------------------------------------
(* Inputs *)

Builds == {"B", "C"}

WALLET_B == "vines1vzrYbzLMRdu58ou5XTby4qAqVRLmqo36NKPTg"
WALLET_C == "DLRPZSrex3dk58mbJxfKEaxPMazchNogvZDSh26BhgRi"
TX_SIG == "5UfDuX7WXY18keiz9mZ6zKkY8JyNuLDFz2UEDLYwvdpFvoxw9fSgLz7EXi25FJRPBBjAmJo8Xc3DnjnV9CjGuVMA"

WALLET == IF variant = "B" THEN WALLET_B ELSE WALLET_C

\* process.env.FLUXRPC_API_KEY and process.env.FLUXRPC_REGION
EnvKeys == {JUndef, JStr(""), JStr("k3y")}
EnvRegions == {JUndef, JStr(""), JStr("eu"), JStr("us"), JStr("asia")}

\* Strings an importer passes to getBalance / getTransaction.
Addresses == {WALLET_B, "", "0xdeadbeef", TX_SIG}
Signatures == {TX_SIG, "", "0xdeadbeef"}

\* What the provider may answer.
Lamports == {0, 35737443}
Blockhashes ==
    {[blockhash |-> "Zb6cPmjqh9UmdG4TP4QRVDsjFEinDzze8CY2mrgXgEv",
      lastValidBlockHeight |-> 375270398]}
Metas ==
    {JNull,
     [err |-> JNull, fee |-> 5000],
     [err |-> [t |-> "object", v |-> "InstructionError"], fee |-> 5000]}
Transactions == {[slot |-> 375270100, meta |-> m] : m \in Metas}
Slots == {375270200}
BlockTimes == {JNull, JNum(0), JNum(1762083000)}
TransportErrors == {[message |-> "fetch failed"], [message |-> "429 Too Many Requests"]}

\* Date.now(): s * 1000 + ms milliseconds
Clock == {[s |-> 1762083001, ms |-> 0], [s |-> 1762083001, ms |-> 500]}

-----------------------------------------------------------------------------
(* Configuration and connection: lines 42-65 / 233-256 *)

NoExit == -1

\* (process.env.FLUXRPC_REGION as Region) || 'eu'
ResolveRegion(raw) == JOr(raw, JStr("eu"))

\* `https://${FLUXRPC_REGION}.fluxrpc.com?key=${FLUXRPC_API_KEY}`; build C
\* has "/?key=".
MkRpcUrl(build, region, key) ==
    "https://" \o region.v \o ".fluxrpc.com"
        \o (IF build = "B" THEN "?key=" ELSE "/?key=") \o key.v

\* new Connection(RPC_URL, { commitment: 'confirmed' })
NewConnection(url) == [t |-> "Connection", rpcEndpoint |-> url, commitment |-> "confirmed"]

-----------------------------------------------------------------------------
(* Utilities: lines 71-82 / 262-273 *)

PUBLIC_KEY_LENGTH == 32
LAMPORTS_PER_SOL == 1000000000

\* Length in bytes of the base-58 decoding of s, -1 when s holds a character
\* outside the base-58 alphabet.
Bs58DecodedLength(s) ==
    CASE s = WALLET_B -> 32
      [] s = WALLET_C -> 32
      [] s = TX_SIG -> 64
      [] s = "" -> 0
      [] s = "0xdeadbeef" -> -1
      [] OTHER -> -1

\* new PublicKey(address) throws unless address decodes to 32 bytes.
PublicKeyThrows(address) == Bs58DecodedLength(address) /= PUBLIC_KEY_LENGTH

PublicKey(address) == [t |-> "PublicKey", base58 |-> address]

isValidPublicKey(address) == ~PublicKeyThrows(address)

\* The conversion with the ratio of a 6-decimal token.
lamportsToSol_Micro(lamports) == Quot(lamports, 1000000)

lamportsToSol(lamports) == Quot(lamports, LAMPORTS_PER_SOL)

-----------------------------------------------------------------------------
(* Invocations and the RPC client *)

DemoIds == 1..3
LibIds == 4..(3 + MaxCalls)
CallIds == DemoIds \cup LibIds

FreeCall ==
    [pc |-> "free", method |-> "", args |-> <<>>, reqs |-> <<>>,
     result |-> JUndef, error |-> JUndef, slot |-> JUndef]

NoReq == [rpc |-> "none", args |-> <<>>]

\* A reply of the RPC client: the awaited promise resolves or rejects.
Ok(v) == [ok |-> TRUE, value |-> v, error |-> JUndef]
Err(e) == [ok |-> FALSE, value |-> JUndef, error |-> e]

\* The invocation suspended at an await on request rpc(args).
Awaiting(call, at, rpc, rpcArgs) ==
    [call |-> [call EXCEPT !.pc = at, !.reqs = Append(@, rpc)],
     req |-> [rpc |-> rpc, args |-> rpcArgs]]

\* The invocation's promise rejected with e.
Rejected(call, e) ==
    [call |-> [call EXCEPT !.pc = "failed", !.error = e], req |-> NoReq]

\* The invocation's promise resolved with r.
Resolved(call, r) ==
    [call |-> [call EXCEPT !.pc = "returned", !.result = r], req |-> NoReq]

Entered(method, args) == [FreeCall EXCEPT !.method = method, !.args = args]

-----------------------------------------------------------------------------
(* RPC methods: lines 95-151 / 286-333.  Each is given as its synchronous  *)
(* part up to the await and the continuation run with the client's reply.  *)

\* getBalance without its guard: the request goes out before validation.
getBalance_Unguarded(address) ==
    Awaiting(Entered("getBalance", <<address>>), "await",
             "getBalance", <<PublicKey(address)>>)

\* lines 95-101 / 286-292
getBalance(address) ==
    IF ~isValidPublicKey(address)
    THEN Rejected(Entered("getBalance", <<address>>),
                  [message |-> "Invalid address: " \o address])
    ELSE Awaiting(Entered("getBalance", <<address>>), "await",
                  "getBalance", <<PublicKey(address)>>)

\* A failed request is sent once more before giving up.
getBalance_resume_Retry(call, reply) ==
    IF ~reply.ok /\ Len(call.reqs) < 2
    THEN Awaiting(call, "await", "getBalance", <<PublicKey(call.args[1])>>)
    ELSE IF ~reply.ok
    THEN Rejected(call, reply.error)
    ELSE Resolved(call, [address |-> call.args[1],
                         lamports |-> reply.value,
                         sol |-> lamportsToSol(reply.value)])

\* lines 101-107 / 292-298
getBalance_resume(call, reply) ==
    IF ~reply.ok
    THEN Rejected(call, reply.error)
    ELSE Resolved(call, [address |-> call.args[1],
                         lamports |-> reply.value,
                         sol |-> lamportsToSol(reply.value)])

\* lines 117-119 / 308-310
getBlockhash ==
    Awaiting(Entered("getBlockhash", <<>>), "await", "getLatestBlockhash", <<>>)

\* lines 121-124 / 312-315
getBlockhash_resume(call, reply) ==
    IF ~reply.ok
    THEN Rejected(call, reply.error)
    ELSE Resolved(call, [blockhash |-> reply.value.blockhash,
                         lastValidBlockHeight |-> reply.value.lastValidBlockHeight])

\* getTransaction with a guard on the signature, like getBalance's.
getTransaction_Validating(signature) ==
    IF Bs58DecodedLength(signature) /= 64
    THEN Rejected(Entered("getTransaction", <<signature>>),
                  [message |-> "Invalid signature: " \o signature])
    ELSE Awaiting(Entered("getTransaction", <<signature>>), "await", "getTransaction",
                  <<JStr(signature), [maxSupportedTransactionVersion |-> 0]>>)

\* lines 134-138
getTransaction(signature) ==
    Awaiting(Entered("getTransaction", <<signature>>), "await", "getTransaction",
             <<JStr(signature), [maxSupportedTransactionVersion |-> 0]>>)

\* tx.meta?.err and tx.meta?.fee
MetaErr(meta) == IF meta = JNull THEN JUndef ELSE meta.err
MetaFee(meta) == IF meta = JNull THEN JUndef ELSE JNum(meta.fee)

\* a ?? b
Coalesce(a, b) == IF a = JNull \/ a = JUndef THEN b ELSE a

\* lines 147-148
TxSuccess(tx) == MetaErr(tx.meta) = JNull
TxFee(tx) == lamportsToSol(Coalesce(MetaFee(tx.meta), JNum(0)).v)

\* A not-found result that still carries a fee field.
getTransaction_resume_Partial(call, reply) ==
    IF ~reply.ok
    THEN Rejected(call, reply.error)
    ELSE IF reply.value = JNull
    THEN Resolved(call, [signature |-> call.args[1], found |-> FALSE,
                         fee |-> lamportsToSol(0)])
    ELSE Resolved(call, [signature |-> call.args[1],
                         found |-> TRUE,
                         success |-> TxSuccess(reply.value),
                         fee |-> TxFee(reply.value),
                         slot |-> reply.value.slot])

\* lines 140-150
getTransaction_resume(call, reply) ==
    IF ~reply.ok
    THEN Rejected(call, reply.error)
    ELSE IF reply.value = JNull
    THEN Resolved(call, [signature |-> call.args[1], found |-> FALSE])
    ELSE Resolved(call, [signature |-> call.args[1],
                         found |-> TRUE,
                         success |-> TxSuccess(reply.value),
                         fee |-> TxFee(reply.value),
                         slot |-> reply.value.slot])

\* line 326
getSlot ==
    Awaiting(Entered("getSlot", <<>>), "await", "getSlot", <<>>)

\* lines 326-327: slot is bound, connection.getBlockTime(slot) is awaited
getSlot_resume(call, reply) ==
    IF ~reply.ok
    THEN Rejected(call, reply.error)
    ELSE Awaiting([call EXCEPT !.slot = JNum(reply.value)], "await2",
                  "getBlockTime", <<JNum(reply.value)>>)

\* timestamp || Date.now() / 1000
SlotTimestamp(timestamp, now) ==
    IF Truthy(timestamp)
    THEN Quot(timestamp.v, 1)
    ELSE [Quot(now.ms, 1000) EXCEPT !.int = now.s]

\* A failed block-time lookup is swallowed: the slot is returned with the
\* wall-clock time.
getBlockTime_resume_Partial(call, reply, now) ==
    IF ~reply.ok
    THEN Resolved(call, [slot |-> call.slot.v,
                         timestamp |-> SlotTimestamp(JNull, now)])
    ELSE Resolved(call, [slot |-> call.slot.v,
                         timestamp |-> SlotTimestamp(reply.value, now)])

\* lines 327-332
getBlockTime_resume(call, reply, now) ==
    IF ~reply.ok
    THEN Rejected(call, reply.error)
    ELSE Resolved(call, [slot |-> call.slot.v,
                         timestamp |-> SlotTimestamp(reply.value, now)])

-----------------------------------------------------------------------------
(* Initial state: the module has not been evaluated yet. *)

Init ==
    /\ variant \in Builds
    /\ env \in [FLUXRPC_API_KEY : EnvKeys, FLUXRPC_REGION : EnvRegions]
    /\ pc = "load"
    /\ FLUXRPC_API_KEY = JUndef
    /\ FLUXRPC_REGION = JUndef
    /\ RPC_URL = JUndef
    /\ connection = JUndef
    /\ demoPc = "idle"
    /\ calls = [c \in CallIds |-> FreeCall]
    /\ net = [c \in CallIds |-> NoReq]
    /\ replies = [c \in CallIds |-> <<>>]
    /\ stdout = <<>>
    /\ stderr = <<>>
    /\ exitCode = NoExit

\* The methods keep the slot in a module-level variable instead of a local:
\* binding it in one invocation rebinds it for all.
Invoke_SharedSlot(c, r) ==
    /\ calls' = [d \in CallIds |->
                    IF d = c THEN r.call
                    ELSE IF r.call.slot /= JUndef /\ calls[d].pc /= "free"
                    THEN [calls[d] EXCEPT !.slot = r.call.slot]
                    ELSE calls[d]]
    /\ net' = [net EXCEPT ![c] = r.req]

\* An invocation enters a method: r is the method's synchronous part.
Invoke(c, r) ==
    /\ calls' = [calls EXCEPT ![c] = r.call]
    /\ net' = [net EXCEPT ![c] = r.req]

-----------------------------------------------------------------------------
(* Module evaluation: lines 48-65 / 239-256 *)

\* lines 48-49 / 239-240
ReadConfig ==
    /\ pc = "load"
    /\ FLUXRPC_API_KEY' = env.FLUXRPC_API_KEY
    /\ FLUXRPC_REGION' = ResolveRegion(env.FLUXRPC_REGION)
    /\ pc' = "config"
    /\ UNCHANGED <<variant, env, RPC_URL, connection, demoPc, calls, net,
                   replies, stdout, stderr, exitCode>>

\* The credential check as `FLUXRPC_API_KEY === undefined`: an empty key passes.
CheckKey_UndefinedOnly ==
    /\ pc = "config"
    /\ IF FLUXRPC_API_KEY = JUndef
       THEN /\ stderr' = stderr \o <<"Missing FLUXRPC_API_KEY in .env file",
                                     "Get your key: https://dashboard.fluxbeam.xyz/admin/apikeys">>
            /\ exitCode' = 1
            /\ pc' = "exited"
       ELSE /\ pc' = "checked"
            /\ UNCHANGED <<stderr, exitCode>>
    /\ UNCHANGED <<variant, env, FLUXRPC_API_KEY, FLUXRPC_REGION, RPC_URL,
                   connection, demoPc, calls, net, replies, stdout>>

\* lines 51-55 / 242-246
CheckKey ==
    /\ pc = "config"
    /\ IF ~Truthy(FLUXRPC_API_KEY)
       THEN /\ stderr' = stderr \o <<"Missing FLUXRPC_API_KEY in .env file",
                                     "Get your key: https://dashboard.fluxbeam.xyz/admin/apikeys">>
            /\ exitCode' = 1
            /\ pc' = "exited"
       ELSE /\ pc' = "checked"
            /\ UNCHANGED <<stderr, exitCode>>
    /\ UNCHANGED <<variant, env, FLUXRPC_API_KEY, FLUXRPC_REGION, RPC_URL,
                   connection, demoPc, calls, net, replies, stdout>>

\* lines 61-65 / 252-256
Connect ==
    /\ pc = "checked"
    /\ RPC_URL' = JStr(MkRpcUrl(variant, FLUXRPC_REGION, FLUXRPC_API_KEY))
    /\ connection' = NewConnection(MkRpcUrl(variant, FLUXRPC_REGION, FLUXRPC_API_KEY))
    /\ pc' = "connected"
    /\ UNCHANGED <<variant, env, FLUXRPC_API_KEY, FLUXRPC_REGION, demoPc,
                   calls, net, replies, stdout, stderr, exitCode>>

-----------------------------------------------------------------------------
(* Demo: lines 157-194 / 339-373.  The demo's k-th call is invocation k. *)

\* lines 191, 157-166 / 370, 339-347: demo() runs up to its first await
DemoStart ==
    /\ pc = "connected"
    /\ demoPc = "idle"
    /\ stdout' = stdout \o <<"FluxRPC Quickstart", "1 getBalance">>
    /\ Invoke(1, getBalance(WALLET))
    /\ demoPc' = "balance"
    /\ pc' = "running"
    /\ UNCHANGED <<variant, env, FLUXRPC_API_KEY, FLUXRPC_REGION, RPC_URL,
                   connection, replies, stderr, exitCode>>

\* The demo goes on to getBlockhash without awaiting getBalance.
DemoAfterBalance_NoAwait ==
    /\ pc = "running"
    /\ demoPc = "balance"
    /\ calls[1].pc \in {"await", "returned"}
    /\ stdout' = stdout \o <<"2 getLatestBlockhash">>
    /\ Invoke(2, getBlockhash)
    /\ demoPc' = "blockhash"
    /\ UNCHANGED <<variant, env, pc, FLUXRPC_API_KEY, FLUXRPC_REGION, RPC_URL,
                   connection, replies, stderr, exitCode>>

\* lines 166-172 / 347-355
DemoAfterBalance ==
    /\ pc = "running"
    /\ demoPc = "balance"
    /\ calls[1].pc = "returned"
    /\ stdout' = stdout
                   \o (IF variant = "B" THEN <<"Address", "Balance">>
                       ELSE <<"Address", "Balance", "Latency">>)
                   \o <<"2 getLatestBlockhash">>
    /\ Invoke(2, getBlockhash)
    /\ demoPc' = "blockhash"
    /\ UNCHANGED <<variant, env, pc, FLUXRPC_API_KEY, FLUXRPC_REGION, RPC_URL,
                   connection, replies, stderr, exitCode>>

\* lines 172-178 / 355-361
DemoAfterBlockhash ==
    /\ pc = "running"
    /\ demoPc = "blockhash"
    /\ calls[2].pc = "returned"
    /\ stdout' = stdout \o <<"Blockhash", "Valid until">>
                   \o (IF variant = "B" THEN <<"3 getTransaction">> ELSE <<"3 getSlot">>)
    /\ Invoke(3, IF variant = "B" THEN getTransaction(TX_SIG) ELSE getSlot)
    /\ demoPc' = "third"
    /\ UNCHANGED <<variant, env, pc, FLUXRPC_API_KEY, FLUXRPC_REGION, RPC_URL,
                   connection, replies, stderr, exitCode>>

\* lines 178-188 / 361-367
DemoAfterThird ==
    /\ pc = "running"
    /\ demoPc = "third"
    /\ calls[3].pc = "returned"
    /\ stdout' = stdout
                   \o (IF variant = "C" THEN <<"Current slot", "Block time">>
                       ELSE IF calls[3].result.found THEN <<"Status", "Fee", "Slot">>
                       ELSE <<"Not found (old or invalid signature)">>)
                   \o <<"Done!">>
    /\ demoPc' = "done"
    /\ UNCHANGED <<variant, env, pc, FLUXRPC_API_KEY, FLUXRPC_REGION, RPC_URL,
                   connection, calls, net, replies, stderr, exitCode>>

\* The invocation the demo is awaiting.
DemoCall ==
    CASE demoPc = "balance" -> 1
      [] demoPc = "blockhash" -> 2
      [] demoPc = "third" -> 3
      [] OTHER -> 0

\* The handler prints the message and the process ends with status 0.
DemoCatch_NoExitCode ==
    /\ pc = "running"
    /\ DemoCall \in DemoIds
    /\ calls[DemoCall].pc = "failed"
    /\ stderr' = stderr \o <<"Error: " \o calls[DemoCall].error.message>>
    /\ exitCode' = 0
    /\ pc' = "exited"
    /\ demoPc' = "rejected"
    /\ UNCHANGED <<variant, env, FLUXRPC_API_KEY, FLUXRPC_REGION, RPC_URL,
                   connection, calls, net, replies, stdout>>

\* lines 191-194 / 370-373: the awaited call rejected, demo() rejects, the
\* handler prints the message and exits.
DemoCatch ==
    /\ pc = "running"
    /\ DemoCall \in DemoIds
    /\ calls[DemoCall].pc = "failed"
    /\ stderr' = stderr \o <<"Error: " \o calls[DemoCall].error.message>>
    /\ exitCode' = 1
    /\ pc' = "exited"
    /\ demoPc' = "rejected"
    /\ UNCHANGED <<variant, env, FLUXRPC_API_KEY, FLUXRPC_REGION, RPC_URL,
                   connection, calls, net, replies, stdout>>

\* demo() resolved and nothing is pending: the event loop drains and the
\* process ends with status 0.
ProcessEnd ==
    /\ pc = "running"
    /\ demoPc = "done"
    /\ \A c \in CallIds : net[c] = NoReq
    /\ exitCode' = 0
    /\ pc' = "exited"
    /\ UNCHANGED <<variant, env, FLUXRPC_API_KEY, FLUXRPC_REGION, RPC_URL,
                   connection, demoPc, calls, net, replies, stdout, stderr>>

-----------------------------------------------------------------------------
(* An importer calls the exported methods: lines 95, 117, 134 / 286, 308,  *)
(* 325.  Invocations are numbered in the order they are made.              *)

CanCall(c) ==
    /\ pc = "running"
    /\ c \in LibIds
    /\ calls[c].pc = "free"
    /\ \A d \in LibIds : d < c => calls[d].pc /= "free"

Unchanged_OnCall ==
    UNCHANGED <<variant, env, pc, FLUXRPC_API_KEY, FLUXRPC_REGION, RPC_URL,
                connection, demoPc, stdout, stderr, exitCode>>

Call_getBalance(c) ==
    /\ CanCall(c)
    /\ \E address \in Addresses : Invoke(c, getBalance(address))
    /\ UNCHANGED replies
    /\ Unchanged_OnCall

Call_getBlockhash(c) ==
    /\ CanCall(c)
    /\ Invoke(c, getBlockhash)
    /\ UNCHANGED replies
    /\ Unchanged_OnCall

Call_getTransaction(c) ==
    /\ CanCall(c)
    /\ variant = "B"
    /\ \E signature \in Signatures : Invoke(c, getTransaction(signature))
    /\ UNCHANGED replies
    /\ Unchanged_OnCall

Call_getSlot(c) ==
    /\ CanCall(c)
    /\ variant = "C"
    /\ Invoke(c, getSlot)
    /\ UNCHANGED replies
    /\ Unchanged_OnCall

-----------------------------------------------------------------------------
(* The RPC client settles a request and the awaiting method continues. *)

Pending(c, rpc) == pc = "running" /\ net[c].rpc = rpc

\* The request of c settles with reply; r is the method's continuation.
Settle(c, reply, r) ==
    /\ replies' = [replies EXCEPT ![c] = Append(@, reply)]
    /\ Invoke(c, r)

Reply_getBalance(c) ==
    /\ Pending(c, "getBalance")
    /\ \/ \E v \in Lamports : Settle(c, Ok(v), getBalance_resume(calls[c], Ok(v)))
       \/ \E e \in TransportErrors : Settle(c, Err(e), getBalance_resume(calls[c], Err(e)))
    /\ Unchanged_OnCall

Reply_getLatestBlockhash(c) ==
    /\ Pending(c, "getLatestBlockhash")
    /\ \/ \E v \in Blockhashes : Settle(c, Ok(v), getBlockhash_resume(calls[c], Ok(v)))
       \/ \E e \in TransportErrors : Settle(c, Err(e), getBlockhash_resume(calls[c], Err(e)))
    /\ Unchanged_OnCall

Reply_getTransaction(c) ==
    /\ Pending(c, "getTransaction")
    /\ \/ Settle(c, Ok(JNull), getTransaction_resume(calls[c], Ok(JNull)))
       \/ \E v \in Transactions : Settle(c, Ok(v), getTransaction_resume(calls[c], Ok(v)))
       \/ \E e \in TransportErrors : Settle(c, Err(e), getTransaction_resume(calls[c], Err(e)))
    /\ Unchanged_OnCall

Reply_getSlot(c) ==
    /\ Pending(c, "getSlot")
    /\ \/ \E v \in Slots : Settle(c, Ok(v), getSlot_resume(calls[c], Ok(v)))
       \/ \E e \in TransportErrors : Settle(c, Err(e), getSlot_resume(calls[c], Err(e)))
    /\ Unchanged_OnCall

Reply_getBlockTime(c) ==
    /\ Pending(c, "getBlockTime")
    /\ \/ \E v \in BlockTimes, now \in Clock :
            Settle(c, Ok(v), getBlockTime_resume(calls[c], Ok(v), now))
       \/ \E e \in TransportErrors, now \in Clock :
            Settle(c, Err(e), getBlockTime_resume(calls[c], Err(e), now))
    /\ Unchanged_OnCall

-----------------------------------------------------------------------------

Next ==
    \/ ReadConfig
    \/ CheckKey
    \/ Connect
    \/ DemoStart
    \/ DemoAfterBalance
    \/ DemoAfterBlockhash
    \/ DemoAfterThird
    \/ DemoCatch
    \/ ProcessEnd
    \/ \E c \in CallIds : Call_getBalance(c)
    \/ \E c \in CallIds : Call_getBlockhash(c)
    \/ \E c \in CallIds : Call_getTransaction(c)
    \/ \E c \in CallIds : Call_getSlot(c)
    \/ \E c \in CallIds : Reply_getBalance(c)
    \/ \E c \in CallIds : Reply_getLatestBlockhash(c)
    \/ \E c \in CallIds : Reply_getTransaction(c)
    \/ \E c \in CallIds : Reply_getSlot(c)
    \/ \E c \in CallIds : Reply_getBlockTime(c)

Spec == Init /\ [][Next]_vars

\* The event loop runs every enabled continuation of the program, and the
\* provider settles every request.
ProgramStep ==
    \/ ReadConfig
    \/ CheckKey
    \/ Connect
    \/ DemoStart
    \/ DemoAfterBalance
    \/ DemoAfterBlockhash
    \/ DemoAfterThird
    \/ DemoCatch
    \/ ProcessEnd

ClientReply ==
    \E c \in CallIds :
        \/ Reply_getBalance(c)
        \/ Reply_getLatestBlockhash(c)
        \/ Reply_getTransaction(c)
        \/ Reply_getSlot(c)
        \/ Reply_getBlockTime(c)

FairSpec == Spec /\ WF_vars(ProgramStep) /\ WF_vars(ClientReply)

-----------------------------------------------------------------------------
(* Properties *)

Started(c) == calls[c].pc /= "free"
Of(c, method) == Started(c) /\ calls[c].method = method
LastReply(c) == replies[c][Len(replies[c])]

\* C1: whenever getBalance is invoked with an address the validator rejects,
\* the invocation has failed with an error whose message names the address,
\* it has issued no request and none is in flight for it; in both builds.
C1_InvalidAddressRejected ==
    \A c \in CallIds :
        (Of(c, "getBalance") /\ ~isValidPublicKey(calls[c].args[1])) =>
            /\ calls[c].pc = "failed"
            /\ calls[c].error = [message |-> "Invalid address: " \o calls[c].args[1]]
            /\ calls[c].result = JUndef
            /\ calls[c].reqs = <<>>
            /\ replies[c] = <<>>
            /\ net[c] = NoReq

C1_Witness ==
    \E c \in CallIds :
        /\ Of(c, "getBalance")
        /\ ~isValidPublicKey(calls[c].args[1])
        /\ calls[c].pc = "failed"
        /\ variant = "C"

NoQueryStarted ==
    /\ demoPc = "idle"
    /\ \A c \in CallIds : ~Started(c) /\ net[c] = NoReq /\ replies[c] = <<>>

MissingKey == ~Truthy(env.FLUXRPC_API_KEY)

\* C2: when the API key is absent or empty at process start, the process
\* ends, with exit status 1 and the diagnostic printed, and it never gets
\* past the credential check: the connection is never constructed, the demo
\* never starts and no query is issued.
C2_MissingKeyExits ==
    /\ [](MissingKey =>
            /\ pc \in {"load", "config", "exited"}
            /\ connection = JUndef
            /\ RPC_URL = JUndef
            /\ NoQueryStarted
            /\ exitCode \in {NoExit, 1}
            /\ (pc = "exited") <=> (exitCode = 1)
            /\ pc = "exited" => stderr /= <<>>)
    /\ (MissingKey ~> (pc = "exited" /\ exitCode = 1))

C2_Witness ==
    /\ env.FLUXRPC_API_KEY = JStr("")
    /\ pc = "exited"
    /\ exitCode = 1

\* C3: every result getTransaction returns has success, fee and slot all
\* present when found is true and none of them when found is false; it
\* echoes the input signature; a null reply gives exactly
\* {signature, found: false} as a normal return, any other reply gives
\* found: true.
C3_TransactionResultShape ==
    \A c \in CallIds :
        (Of(c, "getTransaction") /\ calls[c].pc = "returned") =>
            LET r == calls[c].result IN
            /\ r.signature = calls[c].args[1]
            /\ DOMAIN r = IF r.found
                          THEN {"signature", "found", "success", "fee", "slot"}
                          ELSE {"signature", "found"}
            /\ r.found <=> (LastReply(c).value /= JNull)
            /\ LastReply(c).ok
            /\ calls[c].error = JUndef

C3_Witness ==
    \E c \in CallIds :
        /\ Of(c, "getTransaction")
        /\ calls[c].pc = "returned"
        /\ LastReply(c).value = JNull
        /\ calls[c].result = [signature |-> calls[c].args[1], found |-> FALSE]

\* The provider's reply for a transaction carries no error: it has no meta,
\* or its meta has err null.
ReplyCarriesNoError(tx) == tx.meta = JNull \/ tx.meta.err = JNull

\* C4: for every found transaction, success is true exactly when the
\* provider's reply carries no error, whatever the shape of the reply
\* (meta with err null, meta with err set, meta null).
C4_SuccessIffNoError ==
    \A c \in CallIds :
        (Of(c, "getTransaction") /\ calls[c].pc = "returned" /\ calls[c].result.found) =>
            (calls[c].result.success <=> ReplyCarriesNoError(LastReply(c).value))

\* C5: once the connection exists, its URL is
\* https://{region}.fluxrpc.com[/]?key={apiKey} with region 'eu' or 'us':
\* the environment's region when it is one of the two, 'eu' otherwise.
C5_RegionAccepted ==
    connection /= JUndef =>
        LET region == IF env.FLUXRPC_REGION \in {JStr("eu"), JStr("us")}
                      THEN env.FLUXRPC_REGION.v
                      ELSE "eu"
            key == env.FLUXRPC_API_KEY.v
        IN  /\ connection.rpcEndpoint \in
                 {"https://" \o region \o ".fluxrpc.com/?key=" \o key,
                  "https://" \o region \o ".fluxrpc.com?key=" \o key}
            /\ RPC_URL = JStr(connection.rpcEndpoint)

InvalidBalanceCall(c) ==
    calls[c].method = "getBalance" /\ ~isValidPublicKey(calls[c].args[1])

\* C6 as stated: every invocation of every query method issues at most one
\* request: exactly one on the valid-input path, none when validation
\* fails, never a second one.
C6_AtMostOneRequest ==
    \A c \in CallIds :
        Started(c) => Len(calls[c].reqs) = IF InvalidBalanceCall(c) THEN 0 ELSE 1

\* C6 amended: getBalance, getBlockhash and getTransaction issue exactly one
\* request per invocation (getBalance none when validation fails) and never
\* a second one; getSlot issues getSlot and, only after that request was
\* answered successfully, one getBlockTime: two requests when it returns,
\* never more, never the same request twice.
C6_RequestsPerMethod ==
    \A c \in CallIds :
        Started(c) =>
            LET r == calls[c].reqs IN
            CASE calls[c].method = "getBalance" ->
                    r = IF InvalidBalanceCall(c) THEN <<>> ELSE <<"getBalance">>
              [] calls[c].method = "getBlockhash" -> r = <<"getLatestBlockhash">>
              [] calls[c].method = "getTransaction" -> r = <<"getTransaction">>
              [] calls[c].method = "getSlot" ->
                    /\ r \in {<<"getSlot">>, <<"getSlot", "getBlockTime">>}
                    /\ (Len(r) = 2) <=> (replies[c] /= <<>> /\ replies[c][1].ok)
                    /\ calls[c].pc = "returned" => Len(r) = 2
              [] OTHER -> FALSE

C6_Witness ==
    \E c \in CallIds :
        /\ Of(c, "getSlot")
        /\ calls[c].pc = "returned"
        /\ calls[c].reqs = <<"getSlot", "getBlockTime">>

\* C7: when a request of an invocation fails in the RPC client, that was
\* the invocation's last request, the invocation has failed with that same
\* error, and it has no result record (getSlot none either when only its
\* block-time lookup failed).
C7_TransportErrorPropagates ==
    \A c \in CallIds :
        \A i \in 1..Len(replies[c]) :
            ~replies[c][i].ok =>
                /\ i = Len(replies[c])
                /\ Len(calls[c].reqs) = i
                /\ net[c].rpc = "none"
                /\ calls[c].pc = "failed"
                /\ calls[c].error = replies[c][i].error
                /\ calls[c].result = JUndef

C7_Witness ==
    \E c \in CallIds :
        /\ Of(c, "getSlot")
        /\ Len(replies[c]) = 2
        /\ replies[c][1].ok
        /\ ~replies[c][2].ok
        /\ calls[c].pc = "failed"

\* A signature is 64 bytes in base 58.
MalformedSignature(signature) == Bs58DecodedLength(signature) /= 64

\* C8 as stated: for a malformed signature getTransaction never returns a
\* TransactionResult.
C8_MalformedSignatureFails ==
    \A c \in CallIds :
        (Of(c, "getTransaction") /\ MalformedSignature(calls[c].args[1])) =>
            calls[c].pc /= "returned"

\* C8 amended: getTransaction does not validate its signature: a malformed
\* signature is sent unchanged to the provider in exactly one request, never
\* retried; the call fails only when that request fails, with the client's
\* error, and when the provider replies null it returns
\* {signature, found: false} as a normal result.
C8_MalformedSignatureForwarded ==
    \A c \in CallIds :
        (Of(c, "getTransaction") /\ MalformedSignature(calls[c].args[1])) =>
            /\ calls[c].reqs = <<"getTransaction">>
            /\ Len(replies[c]) <= 1
            /\ calls[c].pc = "await" =>
                    /\ net[c].rpc = "getTransaction"
                    /\ net[c].args[1] = JStr(calls[c].args[1])
            /\ calls[c].pc = "failed" =>
                    /\ ~LastReply(c).ok
                    /\ calls[c].error = LastReply(c).error
            /\ calls[c].pc = "returned" =>
                    /\ LastReply(c).ok
                    /\ LastReply(c).value = JNull =>
                            calls[c].result =
                                [signature |-> calls[c].args[1], found |-> FALSE]

C8_Witness ==
    \E c \in CallIds :
        /\ Of(c, "getTransaction")
        /\ MalformedSignature(calls[c].args[1])
        /\ calls[c].pc = "returned"
        /\ ~calls[c].result.found

InFlight(c) == net[c].rpc /= "none"

\* C9: the demo's queries are getBalance, getBlockhash and the third method
\* in that order, each started only when the one before has returned; every
\* request of the demo is issued only after its previous request was
\* answered, and at most one request of the demo is in flight.
C9_DemoSequential ==
    /\ Cardinality({c \in DemoIds : InFlight(c)}) <= 1
    /\ Started(1) => calls[1].method = "getBalance" /\ calls[1].args = <<WALLET>>
    /\ Started(2) => calls[2].method = "getBlockhash" /\ calls[1].pc = "returned"
    /\ Started(3) =>
            /\ calls[3].method = IF variant = "B" THEN "getTransaction" ELSE "getSlot"
            /\ calls[2].pc = "returned"
    /\ \A c \in DemoIds :
            /\ Len(calls[c].reqs) <= Len(replies[c]) + 1
            /\ InFlight(c) <=> (Len(calls[c].reqs) = Len(replies[c]) + 1)

C9_Witness ==
    /\ variant = "C"
    /\ calls[3].pc = "await2"
    /\ net[3].rpc = "getBlockTime"

\* C10: with every request eventually answered, the process ends; it ends
\* with status 0 exactly when the demo's three queries all returned a
\* result, and otherwise with status 1 and a message on stderr; once a query
\* of the demo has failed, no later query of the demo is started.
C10_DemoTerminates ==
    /\ <>(pc = "exited")
    /\ [](pc = "exited" =>
            /\ exitCode \in {0, 1}
            /\ (exitCode = 0) <=> (\A k \in DemoIds : calls[k].pc = "returned")
            /\ exitCode = 1 => stderr /= <<>>)
    /\ [](\A k \in DemoIds : calls[k].pc = "failed" =>
            \A j \in DemoIds : j > k => ~Started(j))

C10_Witness ==
    /\ pc = "exited"
    /\ exitCode = 1
    /\ calls[1].pc = "returned"
    /\ calls[2].pc = "failed"
    /\ ~Started(3)

\* The block time the provider gave a returned getSlot invocation.
BlockTimeOf(c) == replies[c][2].value

\* C11: the timestamp of every SlotResult is a whole number of seconds; it
\* is the provider's block time whenever that is not null (0 included), and
\* the wall-clock time only when the provider has no block time.
C11_TimestampIsBlockTime ==
    \A c \in CallIds :
        (Of(c, "getSlot") /\ calls[c].pc = "returned") =>
            LET ts == calls[c].result.timestamp IN
            /\ ts.num = 0
            /\ BlockTimeOf(c) /= JNull => ts.int = BlockTimeOf(c).v
            /\ BlockTimeOf(c) = JNull => \E now \in Clock : ts.int = now.s

\* The value x (int + num/den) times 1,000,000,000 is the integer n.
IsBillionth(x, n) ==
    /\ x.den > 0
    /\ x.num >= 0
    /\ x.num < x.den
    /\ 1000000000 % x.den = 0
    /\ x.int = n \div 1000000000
    /\ x.num * (1000000000 \div x.den) = n % 1000000000

\* C12: for a valid address a and a balance n reported by the provider,
\* getBalance(a) returns exactly {address: a, lamports: n, sol: n / 1e9};
\* a balance of 0 gives lamports 0 and sol 0 as a normal result.
C12_BalanceResult ==
    \A c \in CallIds :
        (Of(c, "getBalance") /\ isValidPublicKey(calls[c].args[1])
             /\ replies[c] /= <<>> /\ LastReply(c).ok) =>
            LET r == calls[c].result
                n == LastReply(c).value
            IN  /\ calls[c].pc = "returned"
                /\ calls[c].error = JUndef
                /\ DOMAIN r = {"address", "lamports", "sol"}
                /\ r.address = calls[c].args[1]
                /\ r.lamports = n
                /\ IsBillionth(r.sol, n)
                /\ n = 0 => r.sol.int = 0 /\ r.sol.num = 0

C12_Witness ==
    /\ \E c \in CallIds :
            /\ Of(c, "getBalance")
            /\ calls[c].pc = "returned"
            /\ calls[c].result.lamports = 0
            /\ calls[c].result.sol = [int |-> 0, num |-> 0, den |-> 1]
    /\ \E c \in CallIds :
            /\ Of(c, "getBalance")
            /\ calls[c].pc = "returned"
            /\ calls[c].result.lamports = 35737443
            /\ calls[c].result.sol = [int |-> 0, num |-> 35737443, den |-> 1000000000]

\* The synchronous part of a method called with args.
Begin(method, args) ==
    CASE method = "getBalance" -> getBalance(args[1])
      [] method = "getBlockhash" -> getBlockhash
      [] method = "getTransaction" -> getTransaction(args[1])
      [] method = "getSlot" -> getSlot

\* The continuation of an invocation awaiting request rpc.
Continue(call, rpc, reply, now) ==
    CASE rpc = "getBalance" -> getBalance_resume(call, reply)
      [] rpc = "getLatestBlockhash" -> getBlockhash_resume(call, reply)
      [] rpc = "getTransaction" -> getTransaction_resume(call, reply)
      [] rpc = "getSlot" -> getSlot_resume(call, reply)
      [] rpc = "getBlockTime" -> getBlockTime_resume(call, reply, now)

\* The method run alone: called with args and given the replies rs in order.
Alone(method, args, rs, now) ==
    LET s0 == Begin(method, args)
        s1 == IF Len(rs) >= 1 THEN Continue(s0.call, s0.req.rpc, rs[1], now) ELSE s0
    IN  IF Len(rs) >= 2 THEN Continue(s1.call, s1.req.rpc, rs[2], now) ELSE s1

\* Invocation c is where it would be had it run alone with its own replies.
AsIfAlone(c) ==
    \E now \in Clock :
        /\ calls[c] = Alone(calls[c].method, calls[c].args, replies[c], now).call
        /\ net[c] = Alone(calls[c].method, calls[c].args, replies[c], now).req

Touched(c) ==
    calls'[c] /= calls[c] \/ net'[c] /= net[c] \/ replies'[c] /= replies[c]

\* C13: under every interleaving of the demo's and an importer's calls, each
\* invocation is at every moment where it would be had it run alone with
\* the replies it got (so it returns the same result); a step of one
\* invocation changes nothing of another; the connection, once created, is
\* never reassigned.
C13_CallsIndependent ==
    /\ [](\A c \in CallIds : Started(c) => AsIfAlone(c))
    /\ [][\A c, d \in CallIds : (c /= d /\ Touched(c)) => ~Touched(d)]_vars
    /\ [][connection /= JUndef => connection' = connection]_vars

\* An importer's call was made and has returned while a call of the demo to
\* the same method is still awaiting its reply.
C13_Witness ==
    \E c \in DemoIds, d \in LibIds :
        /\ calls[c].pc \in {"await", "await2"}
        /\ InFlight(c)
        /\ calls[d].pc = "returned"
        /\ calls[d].method = calls[c].method
        /\ Len(replies[d]) > Len(replies[c])

=============================================================================
